---- MODULE Spec2Model ----
(***************************************************************************)
(* Walk Mode engine of ar-city-explorer: WalkModeService (proximity        *)
(* engine, tour sequencer, lifecycle), SessionService (per-day visited /   *)
(* skipped sets) and the App handlers that drive them.                     *)
(*                                                                         *)
(* Optional values (T | null) are sequences of length 0 or 1.              *)
(* Coordinates are positions on a line, in metres; calculateDistance is    *)
(* the distance on that line (the Haversine formula needs real numbers).   *)
(* GeoLocation.accuracy and .timestamp are stored by the code but never    *)
(* read back, so currentLocation keeps the position only.                  *)
(***************************************************************************)
EXTENDS Integers, Sequences, FiniteSets, TLC

VARIABLES
    \* WalkModeService
    isActive, currentLocation, pendingLandmark, visitedIds, skippedIds,
    isPaused, gpsAccuracyPoor, currentCityId,
    activeTour, tourIndex, tourPreviewLimit, tourPreviewLimitReached,
    watchId,
    \* SessionService
    sessionVisitedIds, sessionSkippedIds,
    \* App
    locationCheckInterval,
    \* platform and collaborators
    liveWatches, liveIntervals, geolocation, storage, today,
    landmarks, interests, memories, activeCityId, documentHidden

walkVars == <<isActive, currentLocation, pendingLandmark, visitedIds, skippedIds,
              isPaused, gpsAccuracyPoor, currentCityId, activeTour, tourIndex,
              tourPreviewLimit, tourPreviewLimitReached, watchId>>
tourVars == <<activeTour, tourIndex, tourPreviewLimit, tourPreviewLimitReached>>
sessVars == <<sessionVisitedIds, sessionSkippedIds, storage>>
appVars  == <<locationCheckInterval, liveIntervals, documentHidden>>
dataVars == <<landmarks, interests, memories>>
envVars  == <<geolocation, today>>
vars == <<walkVars, sessVars, appVars, dataVars, envVars, liveWatches,
          activeCityId>>

\* ------------------------------------------------------------------ bounds

\* Live platform location watches (leaked ones included) the model follows.
MaxWatches == 2

\* Live platform interval timers (leaked ones included) the model follows.
MaxIntervals == 2

\* Candidates in a drawn list of the ranking specification.
MaxCandidates == 2

\* Days the model follows: today runs from 1 to MaxDay.
MaxDay == 2

\* ------------------------------------------------------- program constants

PROXIMITY_THRESHOLD == 30
POOR_ACCURACY_THRESHOLD == 50
INTEREST_PRIORITY_RANGE == 200

\* ------------------------------------------------------------------ values

Null == <<>>
Some(x) == <<x>>
IsNull(o) == o = <<>>
Abs(n) == IF n < 0 THEN -n ELSE n

\* Order-preserving sub-lists of a list: the candidate lists a caller passes.
RECURSIVE SubLists(_)
SubLists(s) ==
    IF s = <<>> THEN {<<>>}
    ELSE LET rest == SubLists(Tail(s))
         IN  rest \cup {<<Head(s)>> \o r : r \in rest}

ListIds(list) == {list[i].id : i \in DOMAIN list}

\* ----------------------------------------------------------- the inputs

\* The walk scenario: L1 at 10 m without tags, L2 at 25 m and L3 at 100 m,
\* both tagged history, seen from position 0.
ScenarioLandmarks ==
    << [id |-> "L1", pos |-> 10,  tags |-> {}],
       [id |-> "L2", pos |-> 25,  tags |-> {"history"}],
       [id |-> "L3", pos |-> 100, tags |-> {"history"}] >>

LandmarkIds == {"L1", "L2", "L3"}

\* Positions a location fix reports: 0 (the scenario), 10 (on top of L1),
\* 40 (L1 exactly 30 m away) and 41 (L1 31 m away).
Positions == {0, 10, 40, 41}

\* Accuracies a location fix reports, around POOR_ACCURACY_THRESHOLD.
Accuracies == {50, 51}

Tours ==
    { [id |-> "T1", landmarkIds |-> <<"L2", "L1">>, previewLandmarkCount |-> 1] }

Cities == {"dallas", "austin"}

\* -------------------------------------------------- WalkModeService, pure

calculateDistance(from, to) == Abs(to - from)

\* { score, matchedInterest } of a landmark's tags against the ranked interests:
\* the first interest found in the tags decides; 2 if it is the primary one.
getInterestMatchScore(tags) ==
    LET hits == {i \in DOMAIN interests : interests[i] \in tags}
    IN  IF tags = {} \/ hits = {} THEN [score |-> 0, matchedInterest |-> "none"]
        ELSE LET first == CHOOSE i \in hits : \A j \in hits : i <= j
             IN  [score |-> IF interests[first] = interests[1] THEN 2 ELSE 1,
                  matchedInterest |-> interests[first]]

hasMemory(id) == id \in memories

\* One entry of withScores.
withScore(l, location) ==
    LET m == getInterestMatchScore(l.tags)
    IN  [id |-> l.id, pos |-> l.pos, tags |-> l.tags,
         distance |-> calculateDistance(location, l.pos),
         matchedInterest |-> m.matchedInterest,
         interestScore |-> m.score,
         previouslyVisited |-> hasMemory(l.id)]

\* The sort comparator: negative when a sorts before b.
compareNoRange(a, b) ==
    IF a.previouslyVisited /\ ~b.previouslyVisited THEN 1
    ELSE IF ~a.previouslyVisited /\ b.previouslyVisited THEN -1
    ELSE IF b.interestScore - a.interestScore # 0
         THEN b.interestScore - a.interestScore
         ELSE a.distance - b.distance

compareNoMemory(a, b) ==
    LET aInRange == a.distance <= INTEREST_PRIORITY_RANGE
        bInRange == b.distance <= INTEREST_PRIORITY_RANGE
    IN  IF aInRange /\ bInRange /\ b.interestScore - a.interestScore # 0
        THEN b.interestScore - a.interestScore
        ELSE a.distance - b.distance

compareNoInterest(a, b) ==
    IF a.previouslyVisited /\ ~b.previouslyVisited THEN 1
    ELSE IF ~a.previouslyVisited /\ b.previouslyVisited THEN -1
    ELSE a.distance - b.distance

compare(a, b) ==
    IF a.previouslyVisited /\ ~b.previouslyVisited THEN 1
    ELSE IF ~a.previouslyVisited /\ b.previouslyVisited THEN -1
    ELSE LET aInRange == a.distance <= INTEREST_PRIORITY_RANGE
             bInRange == b.distance <= INTEREST_PRIORITY_RANGE
         IN  IF aInRange /\ bInRange /\ b.interestScore - a.interestScore # 0
             THEN b.interestScore - a.interestScore
             ELSE a.distance - b.distance

\* Array.prototype.sort with the comparator: a stable insertion sort.
RECURSIVE insertSorted(_, _)
insertSorted(x, sorted) ==
    IF sorted = <<>> THEN <<x>>
    ELSE IF compare(x, Head(sorted)) < 0 THEN <<x>> \o sorted
    ELSE <<Head(sorted)>> \o insertSorted(x, Tail(sorted))

RECURSIVE sort(_)
sort(list) ==
    IF list = <<>> THEN <<>>
    ELSE insertSorted(list[Len(list)], sort(SubSeq(list, 1, Len(list) - 1)))

\* The service's fields and the platform's watch registry, as one value.
WalkState ==
    [isActive |-> isActive, currentLocation |-> currentLocation,
     pendingLandmark |-> pendingLandmark, visitedIds |-> visitedIds,
     skippedIds |-> skippedIds, isPaused |-> isPaused,
     gpsAccuracyPoor |-> gpsAccuracyPoor, currentCityId |-> currentCityId,
     activeTour |-> activeTour, tourIndex |-> tourIndex,
     tourPreviewLimit |-> tourPreviewLimit,
     tourPreviewLimitReached |-> tourPreviewLimitReached,
     watchId |-> watchId, liveWatches |-> liveWatches]

SetWalk(w) ==
    /\ isActive' = w.isActive
    /\ currentLocation' = w.currentLocation
    /\ pendingLandmark' = w.pendingLandmark
    /\ visitedIds' = w.visitedIds
    /\ skippedIds' = w.skippedIds
    /\ isPaused' = w.isPaused
    /\ gpsAccuracyPoor' = w.gpsAccuracyPoor
    /\ currentCityId' = w.currentCityId
    /\ activeTour' = w.activeTour
    /\ tourIndex' = w.tourIndex
    /\ tourPreviewLimit' = w.tourPreviewLimit
    /\ tourPreviewLimitReached' = w.tourPreviewLimitReached
    /\ watchId' = w.watchId
    /\ liveWatches' = w.liveWatches

\* landmarks.filter(l => !visited.has(l.id) && !skipped.has(l.id))
availableKeepSkipped(w, list) ==
    SelectSeq(list, LAMBDA l : l.id \notin w.visitedIds)

available(w, list) ==
    SelectSeq(list, LAMBDA l : l.id \notin w.visitedIds /\ l.id \notin w.skippedIds)

getNextLandmark(w, list) ==
    IF IsNull(w.currentLocation) THEN Null
    ELSE LET avail == available(w, list)
         IN  IF Len(avail) = 0 THEN Null
             ELSE LET withScores ==
                          [i \in DOMAIN avail |-> withScore(avail[i], w.currentLocation[1])]
                  \* const withScores: the mapped array is built once, as a
                  \* sequence, and then sorted.
                  IN  CHOOSE r \in {Some(sort(ws)[1]) : ws \in {withScores \o <<>>}} : TRUE

\* navigator.geolocation.watchPosition: registers a watch under a fresh id.
freshWatch(w) == CHOOSE n \in 1..(MaxWatches + 1) : n \notin w.liveWatches

startWalkAvailable == geolocation

\* What startWalk returns.
startWalkRet == startWalkAvailable

startWalkResetsFirst(w) ==
    LET reset == [w EXCEPT !.isActive = TRUE, !.isPaused = FALSE,
                           !.visitedIds = {}, !.skippedIds = {},
                           !.pendingLandmark = Null]
    IN  IF ~startWalkAvailable THEN reset
        ELSE [reset EXCEPT !.watchId = Some(freshWatch(w)),
                           !.liveWatches = w.liveWatches \cup {freshWatch(w)}]

startWalk(w) ==
    IF ~startWalkAvailable THEN w
    ELSE [w EXCEPT !.isActive = TRUE, !.isPaused = FALSE,
                   !.visitedIds = {}, !.skippedIds = {},
                   !.pendingLandmark = Null,
                   !.watchId = Some(freshWatch(w)),
                   !.liveWatches = w.liveWatches \cup {freshWatch(w)}]

stopWalk(w) ==
    LET stopped == [w EXCEPT !.isActive = FALSE, !.pendingLandmark = Null]
    IN  IF ~IsNull(w.watchId)
        THEN [stopped EXCEPT !.liveWatches = w.liveWatches \ {w.watchId[1]},
                             !.watchId = Null]
        ELSE stopped

pauseWalk(w) == [w EXCEPT !.isPaused = TRUE]

resumeWalk(w) == [w EXCEPT !.isPaused = FALSE]

handlePositionUpdateAtThreshold(w, pos, accuracy) ==
    LET located == [w EXCEPT !.currentLocation = Some(pos)]
    IN  IF accuracy >= POOR_ACCURACY_THRESHOLD
        THEN [located EXCEPT !.gpsAccuracyPoor = TRUE, !.isPaused = TRUE]
        ELSE [located EXCEPT !.gpsAccuracyPoor = FALSE, !.isPaused = FALSE]

handlePositionUpdate(w, pos, accuracy) ==
    LET located == [w EXCEPT !.currentLocation = Some(pos)]
    IN  IF accuracy > POOR_ACCURACY_THRESHOLD
        THEN [located EXCEPT !.gpsAccuracyPoor = TRUE, !.isPaused = TRUE]
        ELSE [located EXCEPT !.gpsAccuracyPoor = FALSE, !.isPaused = FALSE]

handlePositionError(w) == [w EXCEPT !.gpsAccuracyPoor = TRUE, !.isPaused = TRUE]

\* checkProximity: what it returns, and the state it leaves.
checkProximityRetReplacesPending(w, list) ==
    IF w.isPaused THEN Null
    ELSE LET nearest == getNextLandmark(w, list)
         IN  IF IsNull(nearest) \/ nearest[1].distance = 0 THEN Null
             ELSE IF nearest[1].distance <= PROXIMITY_THRESHOLD THEN nearest
             ELSE Null

checkProximityRet(w, list) ==
    IF w.isPaused \/ ~IsNull(w.pendingLandmark) THEN Null
    ELSE LET nearest == getNextLandmark(w, list)
         IN  IF IsNull(nearest) \/ nearest[1].distance = 0 THEN Null
             ELSE IF nearest[1].distance <= PROXIMITY_THRESHOLD THEN nearest
             ELSE Null

checkProximity(w, list) ==
    IF IsNull(checkProximityRet(w, list)) THEN w
    ELSE [w EXCEPT !.pendingLandmark = checkProximityRet(w, list)]

advanceTourAnyLandmark(w, landmarkId) ==
    IF IsNull(w.activeTour) THEN w
    ELSE [w EXCEPT !.tourIndex = w.tourIndex + 1]

advanceTour(w, landmarkId) ==
    IF IsNull(w.activeTour) THEN w
    ELSE LET tour == w.activeTour[1]
             expected == IF w.tourIndex + 1 \in DOMAIN tour.landmarkIds
                         THEN Some(tour.landmarkIds[w.tourIndex + 1]) ELSE Null
         IN  IF expected = Some(landmarkId)
             THEN [w EXCEPT !.tourIndex = w.tourIndex + 1]
             ELSE w

markVisited(w, id) ==
    LET added == [w EXCEPT !.visitedIds = w.visitedIds \cup {id}]
    IN  IF ~IsNull(w.activeTour) THEN advanceTour(added, id) ELSE added

explorePendingRet(w) == w.pendingLandmark

explorePendingNoTour(w) ==
    IF IsNull(w.pendingLandmark) THEN w
    ELSE [w EXCEPT !.visitedIds = w.visitedIds \cup {w.pendingLandmark[1].id},
                   !.pendingLandmark = Null]

explorePending(w) ==
    IF IsNull(w.pendingLandmark) THEN w
    ELSE [markVisited(w, w.pendingLandmark[1].id) EXCEPT !.pendingLandmark = Null]

skipPendingAdvancesTour(w) ==
    IF IsNull(w.pendingLandmark) THEN w
    ELSE [advanceTour(w, w.pendingLandmark[1].id)
              EXCEPT !.skippedIds = w.skippedIds \cup {w.pendingLandmark[1].id},
                     !.pendingLandmark = Null]

skipPending(w) ==
    IF IsNull(w.pendingLandmark) THEN w
    ELSE [w EXCEPT !.skippedIds = w.skippedIds \cup {w.pendingLandmark[1].id},
                   !.pendingLandmark = Null]

\* ------------------------------------------------ WalkModeService, tours

\* What startTourWalk returns: what its startWalk returns.
startTourWalkRet == startWalkRet

startTourWalkKeepsIndex(w, tour, isPreviewMode) ==
    startWalk([w EXCEPT !.activeTour = Some(tour),
                        !.tourPreviewLimitReached = FALSE,
                        !.tourPreviewLimit =
                            IF isPreviewMode THEN tour.previewLandmarkCount
                            ELSE Len(tour.landmarkIds)])

startTourWalk(w, tour, isPreviewMode) ==
    startWalk([w EXCEPT !.activeTour = Some(tour), !.tourIndex = 0,
                        !.tourPreviewLimitReached = FALSE,
                        !.tourPreviewLimit =
                            IF isPreviewMode THEN tour.previewLandmarkCount
                            ELSE Len(tour.landmarkIds)])

getNextTourLandmarkRetFiltered(w, list) ==
    IF IsNull(w.activeTour) THEN Null
    ELSE LET tour == w.activeTour[1]
         IN  IF w.tourIndex >= Len(tour.landmarkIds) THEN Null
             ELSE IF w.tourIndex >= w.tourPreviewLimit THEN Null
             ELSE LET targetId == tour.landmarkIds[w.tourIndex + 1]
                      found == SelectSeq(available(w, list), LAMBDA l : l.id = targetId)
                  IN  IF found = <<>> THEN Null ELSE Some(found[1])

\* getNextTourLandmark: what it returns, and the state it leaves.
getNextTourLandmarkRet(w, list) ==
    IF IsNull(w.activeTour) THEN Null
    ELSE LET tour == w.activeTour[1]
         IN  IF w.tourIndex >= Len(tour.landmarkIds) THEN Null
             ELSE IF w.tourIndex >= w.tourPreviewLimit THEN Null
             ELSE LET targetId == tour.landmarkIds[w.tourIndex + 1]
                      found == SelectSeq(list, LAMBDA l : l.id = targetId)
                  IN  IF found = <<>> THEN Null ELSE Some(found[1])

getNextTourLandmark(w, list) ==
    IF /\ ~IsNull(w.activeTour)
       /\ w.tourIndex < Len(w.activeTour[1].landmarkIds)
       /\ w.tourIndex >= w.tourPreviewLimit
    THEN [w EXCEPT !.tourPreviewLimitReached = TRUE]
    ELSE w

isTourComplete(w) ==
    IF IsNull(w.activeTour) THEN FALSE
    ELSE w.tourIndex >= Len(w.activeTour[1].landmarkIds)

endTourMode(w) ==
    [w EXCEPT !.activeTour = Null, !.tourIndex = 0, !.tourPreviewLimit = 0,
              !.tourPreviewLimitReached = FALSE]

upgradeTourAccessKeepsLimit(w) ==
    IF IsNull(w.activeTour) THEN w
    ELSE [w EXCEPT !.tourPreviewLimitReached = FALSE]

upgradeTourAccess(w) ==
    IF IsNull(w.activeTour) THEN w
    ELSE [w EXCEPT !.tourPreviewLimit = Len(w.activeTour[1].landmarkIds),
                   !.tourPreviewLimitReached = FALSE]

\* The constructor's effect calls this when the active city's id differs from
\* _currentCityId.
onCityChanged(w, newCityId) ==
    LET stopped == IF w.isActive THEN stopWalk(w) ELSE w
    IN  [stopped EXCEPT !.visitedIds = {}, !.skippedIds = {},
                        !.pendingLandmark = Null, !.activeTour = Null,
                        !.tourIndex = 0, !.tourPreviewLimitReached = FALSE,
                        !.currentCityId = newCityId]

\* -------------------------------------------------------- SessionService

\* localStorage['ar_session_data']: absent, a stored SessionData, or a value
\* JSON.parse rejects.
Corrupt == [parses |-> FALSE, date |-> 0, visitedIds |-> {}, skippedIds |-> {}]

SessionState ==
    [visitedIds |-> sessionVisitedIds, skippedIds |-> sessionSkippedIds,
     storage |-> storage]

SetSession(s) ==
    /\ sessionVisitedIds' = s.visitedIds
    /\ sessionSkippedIds' = s.skippedIds
    /\ storage' = s.storage

\* new Date().toISOString().split('T')[0]
getTodayKey == today

saveSession(s) ==
    [s EXCEPT !.storage = Some([parses |-> TRUE, date |-> getTodayKey,
                                visitedIds |-> s.visitedIds,
                                skippedIds |-> s.skippedIds])]

resetSession(s) == saveSession([s EXCEPT !.visitedIds = {}, !.skippedIds = {}])

loadSessionIgnoresDate(s) ==
    IF IsNull(s.storage) THEN s
    ELSE IF ~s.storage[1].parses THEN resetSession(s)
    ELSE [s EXCEPT !.visitedIds = s.storage[1].visitedIds,
                   !.skippedIds = s.storage[1].skippedIds]

loadSession(s) ==
    IF IsNull(s.storage) THEN s
    ELSE IF ~s.storage[1].parses THEN resetSession(s)
    ELSE IF s.storage[1].date # getTodayKey THEN resetSession(s)
    ELSE [s EXCEPT !.visitedIds = s.storage[1].visitedIds,
                   !.skippedIds = s.storage[1].skippedIds]

sessionMarkVisited(s, id) ==
    saveSession([s EXCEPT !.visitedIds = s.visitedIds \cup {id},
                          !.skippedIds = s.skippedIds \ {id}])

sessionMarkSkipped(s, id) ==
    saveSession([s EXCEPT !.skippedIds = s.skippedIds \cup {id}])

hasVisited(s, id) == id \in s.visitedIds

hasSkipped(s, id) == id \in s.skippedIds

shouldShow(s, id) == ~hasVisited(s, id) /\ ~hasSkipped(s, id)

\* The service as its constructor leaves it: empty sets, then loadSession.
constructSession(s) == loadSession([s EXCEPT !.visitedIds = {}, !.skippedIds = {}])

\* ------------------------------------------------------------ the calls

\* A call of the walk service: it touches nothing outside the service and the
\* platform's watch registry.
WalkCall(w) ==
    /\ SetWalk(w)
    /\ UNCHANGED <<sessVars, appVars, dataVars, envVars, activeCityId>>

\* startWalk registers a watch: the model follows at most MaxWatches live ones.
CanWatch == ~startWalkAvailable \/ Cardinality(liveWatches) < MaxWatches

StartWalk == CanWatch /\ WalkCall(startWalk(WalkState))

StopWalk == WalkCall(stopWalk(WalkState))

PauseWalk == WalkCall(pauseWalk(WalkState))

ResumeWalk == WalkCall(resumeWalk(WalkState))

\* The platform delivers fixes and errors to every live watch's callbacks.
PositionUpdate ==
    /\ liveWatches # {}
    /\ \E pos \in Positions, accuracy \in Accuracies :
          WalkCall(handlePositionUpdate(WalkState, pos, accuracy))

PositionError ==
    /\ liveWatches # {}
    /\ WalkCall(handlePositionError(WalkState))

\* getNextLandmark reads the state and writes nothing.
GetNextLandmark ==
    \E list \in SubLists(landmarks) :
        /\ Len(getNextLandmark(WalkState, list)) <= 1
        /\ WalkCall(WalkState)

CheckProximity ==
    \E list \in SubLists(landmarks) : WalkCall(checkProximity(WalkState, list))

ExplorePending == WalkCall(explorePending(WalkState))

SkipPending == WalkCall(skipPending(WalkState))

MarkVisited == \E id \in LandmarkIds : WalkCall(markVisited(WalkState, id))

StartTourWalk ==
    /\ CanWatch
    /\ \E tour \in Tours, isPreviewMode \in BOOLEAN :
          WalkCall(startTourWalk(WalkState, tour, isPreviewMode))

GetNextTourLandmark ==
    \E list \in SubLists(landmarks) : WalkCall(getNextTourLandmark(WalkState, list))

EndTourMode == WalkCall(endTourMode(WalkState))

UpgradeTourAccess == WalkCall(upgradeTourAccess(WalkState))

\* ------------------------------------------------------------- the start

\* The services as constructed.
InitServices ==
    /\ isActive = FALSE
    /\ currentLocation = Null
    /\ pendingLandmark = Null
    /\ visitedIds = {}
    /\ skippedIds = {}
    /\ isPaused = FALSE
    /\ gpsAccuracyPoor = FALSE
    /\ currentCityId = "dallas"
    /\ activeTour = Null
    /\ tourIndex = 0
    /\ tourPreviewLimit = 0
    /\ tourPreviewLimitReached = FALSE
    /\ watchId = Null
    /\ sessionVisitedIds = {}
    /\ sessionSkippedIds = {}
    /\ locationCheckInterval = Null
    /\ liveWatches = {}
    /\ liveIntervals = {}
    /\ storage = Null
    /\ today = 1
    /\ activeCityId = "dallas"
    /\ documentHidden = FALSE

\* A device with or without geolocation, in the walk scenario.
Init ==
    /\ InitServices
    /\ geolocation \in BOOLEAN
    /\ landmarks = ScenarioLandmarks
    /\ interests = <<"history">>
    /\ memories = {}

\* Free roam: the public methods of WalkModeService that a walk without a
\* tour uses, called in any order, and the platform's location callbacks.
Next ==
    \/ StartWalk
    \/ StopWalk
    \/ PauseWalk
    \/ ResumeWalk
    \/ PositionUpdate
    \/ PositionError
    \/ GetNextLandmark
    \/ CheckProximity
    \/ ExplorePending
    \/ SkipPending
    \/ MarkVisited

Spec == Init /\ [][Next]_vars

\* Tour walks: the tour methods of WalkModeService next to the walk methods
\* a tour uses, called in any order.
NextTour ==
    \/ StartTourWalk
    \/ StartWalk
    \/ StopWalk
    \/ PositionUpdate
    \/ CheckProximity
    \/ ExplorePending
    \/ SkipPending
    \/ MarkVisited
    \/ GetNextTourLandmark
    \/ EndTourMode
    \/ UpgradeTourAccess

SpecTour == Init /\ [][NextTour]_vars

\* A call of the session service: it touches its sets and its stored value.
SessionCall(s) ==
    /\ SetSession(s)
    /\ UNCHANGED <<walkVars, liveWatches, appVars, dataVars, envVars, activeCityId>>

SessionMarkVisited ==
    \E id \in LandmarkIds : SessionCall(sessionMarkVisited(SessionState, id))

SessionMarkSkipped ==
    \E id \in LandmarkIds : SessionCall(sessionMarkSkipped(SessionState, id))

SessionReset == SessionCall(resetSession(SessionState))

\* The app is started again: the service is constructed and loads.
SessionRestart == SessionCall(constructSession(SessionState))

\* The stored value is damaged outside the app.
StorageCorrupted == SessionCall([SessionState EXCEPT !.storage = Some(Corrupt)])

\* Midnight (of the clock getTodayKey reads) passes.
DayChanges ==
    /\ today < MaxDay
    /\ today' = today + 1
    /\ UNCHANGED <<walkVars, liveWatches, sessVars, appVars, dataVars,
                   geolocation, activeCityId>>

\* SessionService alone: its public methods in any order, restarts of the
\* app, a damaged stored value and the change of day.
NextSession ==
    \/ SessionMarkVisited
    \/ SessionMarkSkipped
    \/ SessionReset
    \/ SessionRestart
    \/ StorageCorrupted
    \/ DayChanges

SpecSession == Init /\ [][NextSession]_vars

\* ------------------------------------------------------------------ App

\* setInterval: registers a timer under a fresh id.
freshInterval == CHOOSE n \in 1..(MaxIntervals + 1) : n \notin liveIntervals

\* The list the proximity tick passes: the landmarks the session still
\* shows, mapped to { id, name, latitude, longitude } (the tags are dropped).
walkLandmarksUnfiltered ==
    [i \in DOMAIN landmarks |->
        [id |-> landmarks[i].id, pos |-> landmarks[i].pos, tags |-> {}]]

walkLandmarks ==
    LET shown == SelectSeq(landmarks, LAMBDA l : shouldShow(SessionState, l.id))
    IN  [i \in DOMAIN shown |-> [id |-> shown[i].id, pos |-> shown[i].pos, tags |-> {}]]

\* startWalkMode: startWalk, then startProximityChecking if it started.
AppStartWalkMode ==
    /\ CanWatch
    /\ ~startWalkAvailable \/ Cardinality(liveIntervals) < MaxIntervals
    /\ SetWalk(startWalk(WalkState))
    /\ IF startWalkAvailable
       THEN /\ locationCheckInterval' = Some(freshInterval)
            /\ liveIntervals' = liveIntervals \cup {freshInterval}
       ELSE UNCHANGED <<locationCheckInterval, liveIntervals>>
    /\ UNCHANGED <<sessVars, documentHidden, dataVars, envVars, activeCityId>>

\* stopWalkMode (also closeAR, toggleWalkMode while active, ngOnDestroy).
AppStopWalkMode ==
    /\ SetWalk(stopWalk(WalkState))
    /\ IF ~IsNull(locationCheckInterval)
       THEN /\ liveIntervals' = liveIntervals \ {locationCheckInterval[1]}
            /\ locationCheckInterval' = Null
       ELSE UNCHANGED <<locationCheckInterval, liveIntervals>>
    /\ UNCHANGED <<sessVars, documentHidden, dataVars, envVars, activeCityId>>

\* onStartTour with a selected tour; the tour is in preview mode when it is
\* premium and the user is not.
AppOnStartTour ==
    /\ CanWatch
    /\ \E tour \in Tours, isPreviewMode \in BOOLEAN :
          SetWalk(startTourWalk(WalkState, tour, isPreviewMode))
    /\ UNCHANGED <<sessVars, appVars, dataVars, envVars, activeCityId>>

\* One firing of a live proximity timer.
AppProximityTick ==
    /\ liveIntervals # {}
    /\ IF ~isActive \/ isPaused
       THEN SetWalk(WalkState)
       ELSE \E w \in {checkProximity(WalkState, walkLandmarks)} : SetWalk(w)
    /\ UNCHANGED <<sessVars, appVars, dataVars, envVars, activeCityId>>

\* onExplorePending: explorePending, then markVisited of the session and
\* openExplanation, which saves a memory of the landmark for a premium user
\* whose explanation arrives.
AppOnExplorePending ==
    /\ SetWalk(explorePending(WalkState))
    /\ IF ~IsNull(explorePendingRet(WalkState))
       THEN /\ SetSession(sessionMarkVisited(SessionState, explorePendingRet(WalkState)[1].id))
            /\ memories' \in {memories, memories \cup {explorePendingRet(WalkState)[1].id}}
       ELSE UNCHANGED <<sessVars, memories>>
    /\ UNCHANGED <<appVars, landmarks, interests, envVars, activeCityId>>

AppOnSkipPending ==
    /\ IF ~IsNull(pendingLandmark)
       THEN SetSession(sessionMarkSkipped(SessionState, pendingLandmark[1].id))
       ELSE UNCHANGED sessVars
    /\ SetWalk(skipPending(WalkState))
    /\ UNCHANGED <<appVars, dataVars, envVars, activeCityId>>

\* visibilitychange: the app goes to the background, or comes back.
AppHidden ==
    /\ ~documentHidden
    /\ documentHidden' = TRUE
    /\ SetWalk(IF isActive THEN pauseWalk(WalkState) ELSE WalkState)
    /\ UNCHANGED <<sessVars, locationCheckInterval, liveIntervals, dataVars,
                   envVars, activeCityId>>

AppVisible ==
    /\ documentHidden
    /\ documentHidden' = FALSE
    /\ SetWalk(IF isActive THEN resumeWalk(WalkState) ELSE WalkState)
    /\ UNCHANGED <<sessVars, locationCheckInterval, liveIntervals, dataVars,
                   envVars, activeCityId>>

\* The user selects another city: CityService.setActiveCity, the walk
\* service's effect (onCityChanged) and App.onCitySelected, which reloads
\* landmarks, pack status and the landmark of the day and touches neither
\* service nor the timer. The landmark list stays the Dallas list, which is
\* also what LandmarkService falls back to when a city's file fails to load.
AppCityChanged ==
    \E city \in Cities \ {activeCityId} :
        /\ activeCityId' = city
        /\ SetWalk(IF city # currentCityId THEN onCityChanged(WalkState, city)
                   ELSE WalkState)
        /\ UNCHANGED <<sessVars, appVars, dataVars, envVars>>

\* The app: its handlers and the platform's events, in any order.
NextApp ==
    \/ AppStartWalkMode
    \/ AppStopWalkMode
    \/ AppOnStartTour
    \/ AppProximityTick
    \/ AppOnExplorePending
    \/ AppOnSkipPending
    \/ AppHidden
    \/ AppVisible
    \/ AppCityChanged
    \/ PositionUpdate
    \/ PositionError

SpecApp == Init /\ [][NextApp]_vars

\* Walks started and stopped from the UI, free roam or tour, with the
\* location fixes, the proximity timer and the prompt's two answers.
NextStart ==
    \/ AppStartWalkMode
    \/ AppOnStartTour
    \/ AppStopWalkMode
    \/ AppProximityTick
    \/ AppOnExplorePending
    \/ AppOnSkipPending
    \/ PositionUpdate

\* The same with the timers served: setInterval fires a scheduled proximity
\* timer again and again for as long as it is not cleared.
SpecStartFair ==
    /\ Init /\ [][NextStart]_vars
    /\ WF_vars(AppProximityTick)

\* -------------------------------------------------------------- ranking

\* Distances of the drawn candidates from the fix at position 0: the
\* examples (50, 180, 250) and INTEREST_PRIORITY_RANGE itself.
RankDistances == {50, 180, 200, 250}

\* Tag sets of the drawn candidates: against the interests
\* <<history, food>> they score 0, 2 and 1.
RankTags == {{}, {"history"}, {"food"}}

RankIds == <<"L1", "L2", "L3", "L4">>

RankLists ==
    { [i \in 1..MaxCandidates |-> [id |-> RankIds[i], pos |-> d[i], tags |-> t[i]]] :
        d \in [1..MaxCandidates -> RankDistances],
        t \in [1..MaxCandidates -> RankTags] }

\* A walk that has started and received a fix at position 0, over a drawn
\* candidate list and drawn cross-session memories.
InitRank ==
    /\ isActive = TRUE
    /\ currentLocation = Some(0)
    /\ pendingLandmark = Null
    /\ visitedIds = {}
    /\ skippedIds = {}
    /\ isPaused = FALSE
    /\ gpsAccuracyPoor = FALSE
    /\ currentCityId = "dallas"
    /\ activeTour = Null
    /\ tourIndex = 0
    /\ tourPreviewLimit = 0
    /\ tourPreviewLimitReached = FALSE
    /\ watchId = Some(1)
    /\ liveWatches = {1}
    /\ sessionVisitedIds = {}
    /\ sessionSkippedIds = {}
    /\ locationCheckInterval = Null
    /\ liveIntervals = {}
    /\ storage = Null
    /\ today = 1
    /\ activeCityId = "dallas"
    /\ documentHidden = FALSE
    /\ geolocation = TRUE
    /\ landmarks \in RankLists
    /\ interests = <<"history", "food">>
    /\ memories \in SUBSET {RankIds[i] : i \in 1..MaxCandidates}

NextRank ==
    \/ GetNextLandmark
    \/ CheckProximity
    \/ MarkVisited

SpecRank == InitRank /\ [][NextRank]_vars

\* ------------------------------------------------------ claims, free roam

\* C1: in every reachable walk-session state and for every candidate list,
\* getNextLandmark returns either none or one of the candidates whose id is
\* in neither visitedIds nor skippedIds, and it returns none when every
\* candidate of the list is visited or skipped.
C1_FilteringInvariant ==
    \A list \in SubLists(landmarks) :
        LET r == getNextLandmark(WalkState, list)
        IN  /\ ~IsNull(r) =>
                 /\ r[1].id \in ListIds(list)
                 /\ r[1].id \notin visitedIds \cup skippedIds
            /\ ListIds(list) \subseteq visitedIds \cup skippedIds => IsNull(r)

\* A list with a visited and a skipped candidate from which one is returned.
C1_Witness ==
    \E list \in SubLists(landmarks) :
        /\ ListIds(list) \cap visitedIds # {}
        /\ ListIds(list) \cap skippedIds # {}
        /\ ~IsNull(getNextLandmark(WalkState, list))

\* C5 as claimed: unpaused and with nothing pending, checkProximity sets the
\* top-ranked candidate as pending and returns it if and only if its distance
\* is at most PROXIMITY_THRESHOLD, for every distance from 0 upwards.
C5_ProximityThreshold ==
    \A list \in SubLists(landmarks) :
        LET top == getNextLandmark(WalkState, list)
        IN  (~isPaused /\ IsNull(pendingLandmark) /\ ~IsNull(top)) =>
                /\ top[1].distance <= PROXIMITY_THRESHOLD =>
                      /\ checkProximityRet(WalkState, list) = top
                      /\ checkProximity(WalkState, list).pendingLandmark = top
                /\ top[1].distance > PROXIMITY_THRESHOLD =>
                      /\ IsNull(checkProximityRet(WalkState, list))
                      /\ IsNull(checkProximity(WalkState, list).pendingLandmark)

\* C6: while the session is paused or a landmark is pending, checkProximity
\* returns none and leaves the whole state as it was, for every candidate
\* list; and no step replaces a pending landmark by another one.
C6_NoOpInEveryState ==
    \A list \in SubLists(landmarks) :
        (isPaused \/ ~IsNull(pendingLandmark)) =>
            /\ IsNull(checkProximityRet(WalkState, list))
            /\ checkProximity(WalkState, list) = WalkState

C6_PendingNeverReplaced ==
    (~IsNull(pendingLandmark) /\ ~IsNull(pendingLandmark')) =>
        pendingLandmark' = pendingLandmark

C6_CheckProximityNoOp == [](C6_NoOpInEveryState) /\ [][C6_PendingNeverReplaced]_vars

\* A landmark is pending, the session is not paused, and another candidate
\* is within the threshold: only the guard keeps checkProximity from acting.
C6_Witness ==
    /\ ~IsNull(pendingLandmark)
    /\ ~isPaused
    /\ \E list \in SubLists(landmarks) :
          LET top == getNextLandmark(WalkState, list)
          IN  /\ ~IsNull(top)
              /\ top[1].id # pendingLandmark[1].id
              /\ top[1].distance > 0
              /\ top[1].distance <= PROXIMITY_THRESHOLD

\* The scenario of C10: the fix is at position 0, only L2 is visited, nothing
\* is skipped or remembered, and history is the only interest.
C10_Scenario ==
    /\ currentLocation = Some(0)
    /\ visitedIds = {"L2"}
    /\ skippedIds = {}
    /\ memories = {}
    /\ interests = <<"history">>
    /\ landmarks = ScenarioLandmarks

\* C10 as claimed: with L2 marked visited, getNextLandmark over L1, L2, L3
\* returns L1.
C10_ReturnsL1 ==
    C10_Scenario =>
        /\ ~IsNull(getNextLandmark(WalkState, landmarks))
        /\ getNextLandmark(WalkState, landmarks)[1].id = "L1"

\* C10 as amended: with L2 marked visited, getNextLandmark over L1, L2, L3
\* returns L3: L1 (10 m, score 0) and L3 (100 m, score 2) are both within
\* INTEREST_PRIORITY_RANGE, so the higher interest score wins.
C10_ReturnsL3 ==
    C10_Scenario =>
        /\ ~IsNull(getNextLandmark(WalkState, landmarks))
        /\ getNextLandmark(WalkState, landmarks)[1].id = "L3"
        /\ getNextLandmark(WalkState, landmarks)[1].interestScore = 2
        /\ getNextLandmark(WalkState, landmarks)[1].distance = 100

C10_Witness == C10_Scenario /\ isActive

\* ---------------------------------------------------------- claims, tours

\* orderedLandmarkIds[currentIndex] of the active tour, if there is one.
expectedId(w) ==
    IF ~IsNull(w.activeTour) /\ w.tourIndex + 1 \in DOMAIN w.activeTour[1].landmarkIds
    THEN Some(w.activeTour[1].landmarkIds[w.tourIndex + 1])
    ELSE Null

\* The step is a call of startTourWalk: it creates a new TourState.
C2_StartsTour ==
    \E tour \in Tours, isPreviewMode \in BOOLEAN :
        WalkState' = startTourWalk(WalkState, tour, isPreviewMode)

\* The step marks the expected landmark visited (markVisited, or
\* explorePending of a pending landmark that is the expected one).
C2_MarksExpected ==
    /\ ~IsNull(expectedId(WalkState))
    /\ \/ WalkState' = markVisited(WalkState, expectedId(WalkState)[1])
       \/ /\ ~IsNull(pendingLandmark)
          /\ pendingLandmark[1].id = expectedId(WalkState)[1]
          /\ WalkState' = explorePending(WalkState)

C2_Step ==
    (~IsNull(activeTour) /\ ~IsNull(activeTour') /\ ~C2_StartsTour) =>
        \/ tourIndex' = tourIndex
        \/ tourIndex' = tourIndex + 1 /\ C2_MarksExpected

C2_OtherVisitsIgnored ==
    ~IsNull(activeTour) =>
        \A id \in LandmarkIds :
            Some(id) # expectedId(WalkState) =>
                /\ markVisited(WalkState, id).tourIndex = tourIndex
                /\ markVisited(markVisited(WalkState, id), id).tourIndex = tourIndex

\* C2: during the life of a TourState (from the startTourWalk that creates it
\* on), every step leaves currentIndex unchanged or raises it by exactly 1,
\* and raises it only by marking visited the landmark whose id is
\* orderedLandmarkIds[currentIndex]; marking any other landmark visited, once
\* or repeatedly, leaves currentIndex unchanged.
C2_TourIndexAdvance == [][C2_Step]_vars /\ [](C2_OtherVisitsIgnored)

\* The tour has advanced past its first stop while a landmark that is not the
\* expected stop (L3 is in no tour) was marked visited.
C2_Witness ==
    /\ ~IsNull(activeTour)
    /\ tourIndex = 1
    /\ "L3" \in visitedIds
    /\ "L2" \in visitedIds

\* ------------------------------------------------- claims, SessionService

\* C3 as claimed: after any sequence of markVisited, markSkipped,
\* resetSession and load, no landmark id is in both visitedIds and
\* skippedIds of the session.
C3_VisitedSkippedDisjoint == sessionVisitedIds \cap sessionSkippedIds = {}

\* ------------------------------------------------------- claims, the app

\* C4 as claimed: in every reachable state pendingLandmark is non-null only
\* if isActive is true and isPaused is false.
C4_PendingOnlyWhileActiveUnpaused ==
    ~IsNull(pendingLandmark) => (isActive /\ ~isPaused)

\* C7 as claimed: right after a city change the session's visitedIds and
\* skippedIds, the walk's pendingLandmark and the tour state (active tour,
\* index, preview limit, previewLimitReached) are all empty.
C7_CityChangeStep ==
    activeCityId' # activeCityId =>
        /\ sessionVisitedIds' = {}
        /\ sessionSkippedIds' = {}
        /\ IsNull(pendingLandmark')
        /\ IsNull(activeTour')
        /\ tourIndex' = 0
        /\ tourPreviewLimit' = 0
        /\ ~tourPreviewLimitReached'

C7_CityChangeClears == [][C7_CityChangeStep]_vars

\* ------------------------------------------------------- claims, ranking

\* The scored entries of the candidates getNextLandmark does not filter out.
scoredAvailable(list) ==
    LET avail == available(WalkState, list)
    IN  {withScore(avail[i], currentLocation[1]) : i \in DOMAIN avail}

\* C8: the candidate getNextLandmark returns beats every other unfiltered
\* candidate with the same previouslyVisited flag in this order: when both
\* are within INTEREST_PRIORITY_RANGE the higher interestScore wins (the
\* nearer one on equal scores); when either is beyond it the nearer one wins
\* whatever the scores. So A (50 m, score 0) against B (180 m, score 2)
\* gives B, and against B at 250 m gives A.
C8_InterestOnlyWithinRange ==
    \A list \in SubLists(landmarks) :
        LET r == getNextLandmark(WalkState, list)
        IN  ~IsNull(r) =>
                \A c \in scoredAvailable(list) :
                    c.previouslyVisited = r[1].previouslyVisited =>
                        IF /\ r[1].distance <= INTEREST_PRIORITY_RANGE
                           /\ c.distance <= INTEREST_PRIORITY_RANGE
                        THEN \/ r[1].interestScore > c.interestScore
                             \/ /\ r[1].interestScore = c.interestScore
                                /\ r[1].distance <= c.distance
                        ELSE r[1].distance <= c.distance

\* The claim's example: A at 50 m with score 0, B at 180 m with score 2,
\* neither remembered nor visited, and B is returned.
C8_Witness ==
    /\ landmarks[1].pos = 50 /\ landmarks[1].tags = {}
    /\ landmarks[2].pos = 180 /\ landmarks[2].tags = {"history"}
    /\ memories = {} /\ visitedIds = {}
    /\ getNextLandmark(WalkState, SubSeq(landmarks, 1, 2))[1].id = landmarks[2].id
    /\ getNextLandmark(WalkState, SubSeq(landmarks, 1, 2))[1].interestScore = 2

\* C9: getNextLandmark returns a candidate with cross-session memory only
\* when every unfiltered candidate has memory, whatever the distances and
\* scores, and it returns some candidate whenever one is unfiltered.
C9_MemoryDeprioritized ==
    \A list \in SubLists(landmarks) :
        LET r == getNextLandmark(WalkState, list)
        IN  /\ (~IsNull(r) /\ r[1].previouslyVisited) =>
                  \A c \in scoredAvailable(list) : c.previouslyVisited
            /\ scoredAvailable(list) # {} => ~IsNull(r)

\* A remembered candidate that is nearer and scores higher than one without
\* memory, and the one without memory is returned.
C9_Witness ==
    \E list \in SubLists(landmarks) :
        LET r == getNextLandmark(WalkState, list)
        IN  /\ ~IsNull(r)
            /\ ~r[1].previouslyVisited
            /\ \E c \in scoredAvailable(list) :
                  /\ c.previouslyVisited
                  /\ c.distance < r[1].distance
                  /\ c.interestScore > r[1].interestScore

\* ------------------------------------------- claims, watches and timers

\* C11 as claimed: from every reachable state stopWalk leaves isActive false,
\* pendingLandmark null and no location watch live, and a second stopWalk
\* changes nothing.
C11_StopWalkIdempotent ==
    LET stopped == stopWalk(WalkState)
    IN  /\ ~stopped.isActive
        /\ IsNull(stopped.pendingLandmark)
        /\ IsNull(stopped.watchId)
        /\ stopped.liveWatches = {}
        /\ stopWalk(stopped) = stopped

\* C12 as claimed: at most one location watch is live at any time, and none
\* is live while walk mode is stopped.
C12_AtMostOneWatch ==
    /\ Cardinality(liveWatches) <= 1
    /\ ~isActive => liveWatches = {}

\* C13 as claimed: no proximity timer is scheduled while walk mode is
\* stopped, and at most one proximity timer exists at any time.
C13_TimerCancelledOnExit ==
    /\ Cardinality(liveIntervals) <= 1
    /\ ~isActive => liveIntervals = {}

\* ------------------------------------------------ claims, location signal

\* C14: on a device without location capability startWalk returns false
\* and leaves the whole walk state (isActive, isPaused, visitedIds,
\* skippedIds, pendingLandmark, the watch handle and everything else) as it
\* was.
C14_StartWalkUnavailable ==
    ~geolocation =>
        /\ startWalkRet = FALSE
        /\ startWalk(WalkState) = WalkState

\* No location capability, and a state a started walk would have reset.
C14_Witness ==
    /\ ~geolocation
    /\ visitedIds # {}
    /\ isPaused

\* C15: a location update whose accuracy exceeds POOR_ACCURACY_THRESHOLD and
\* a location error both leave gpsAccuracyPoor and isPaused true; an update
\* with accuracy within the threshold leaves gpsAccuracyPoor false; and
\* none of them changes isActive or the watch.
C15_DegradedSignalPauses ==
    /\ \A pos \in Positions, accuracy \in Accuracies :
          LET u == handlePositionUpdate(WalkState, pos, accuracy)
          IN  /\ accuracy > POOR_ACCURACY_THRESHOLD =>
                    u.gpsAccuracyPoor /\ u.isPaused
              /\ accuracy <= POOR_ACCURACY_THRESHOLD => ~u.gpsAccuracyPoor
              /\ u.isActive = isActive
              /\ u.watchId = watchId
              /\ u.liveWatches = liveWatches
    /\ LET e == handlePositionError(WalkState)
       IN  /\ e.gpsAccuracyPoor /\ e.isPaused
           /\ e.isActive = isActive
           /\ e.watchId = watchId
           /\ e.liveWatches = liveWatches

\* An active walk that a degraded signal has paused, its watch still live.
C15_Witness ==
    /\ isActive
    /\ gpsAccuracyPoor
    /\ isPaused
    /\ ~IsNull(watchId)
    /\ watchId[1] \in liveWatches

\* C16 as claimed: in every reachable state of an active walk
\* gpsAccuracyPoor implies isPaused.
C16_PoorGpsImpliesPaused == (isActive /\ gpsAccuracyPoor) => isPaused

\* C17 as claimed: a location update with accuracy within the threshold
\* unpauses a paused walk in the foreground, and leaves a walk that is
\* paused in the background paused.
C17_GoodUpdate == PositionUpdate /\ isActive /\ isPaused /\ ~gpsAccuracyPoor'

C17_Step ==
    /\ (C17_GoodUpdate /\ ~documentHidden) => ~isPaused'
    /\ (C17_GoodUpdate /\ documentHidden) => isPaused'

C17_AutoResumeUnlessBackgrounded == [][C17_Step]_vars

\* ------------------------------------------- claims, explore and skip

C18_Step ==
    AppOnExplorePending =>
        IF ~IsNull(pendingLandmark)
        THEN /\ explorePendingRet(WalkState) = pendingLandmark
             /\ visitedIds' = visitedIds \cup {pendingLandmark[1].id}
             /\ pendingLandmark[1].id \in sessionVisitedIds'
             /\ tourIndex' = IF expectedId(WalkState) = Some(pendingLandmark[1].id)
                             THEN tourIndex + 1 ELSE tourIndex
             /\ IsNull(pendingLandmark')
        ELSE /\ IsNull(explorePendingRet(WalkState))
             /\ UNCHANGED vars

\* C18: onExplorePending with a pending landmark P returns P from
\* explorePending, adds P to the walk's and the session's visitedIds, raises
\* the tour index by one exactly when a tour is active and P is its expected
\* stop, and clears pendingLandmark; with nothing pending it returns none
\* and changes nothing.
C18_ExplorePending == [][C18_Step]_vars

\* A tour whose first stop L2 was explored from the prompt: the index has
\* advanced and both visited sets hold L2.
C18_Witness ==
    /\ ~IsNull(activeTour)
    /\ tourIndex = 1
    /\ "L2" \in visitedIds
    /\ "L2" \in sessionVisitedIds
    /\ IsNull(pendingLandmark)

C19_Step ==
    AppOnSkipPending =>
        IF ~IsNull(pendingLandmark)
        THEN /\ skippedIds' = skippedIds \cup {pendingLandmark[1].id}
             /\ pendingLandmark[1].id \in sessionSkippedIds'
             /\ IsNull(pendingLandmark')
             /\ UNCHANGED <<visitedIds, sessionVisitedIds, activeTour, tourIndex,
                            tourPreviewLimit, tourPreviewLimitReached, memories>>
        ELSE UNCHANGED vars

\* C19: onSkipPending with a pending landmark P adds P to the walk's and the
\* session's skippedIds and clears pendingLandmark, and leaves visitedIds,
\* the tour state and the memories as they were; with nothing pending it
\* changes nothing.
C19_SkipPending == [][C19_Step]_vars

\* A tour whose expected stop was skipped from the prompt: the stop is in
\* both skipped sets and is still the expected one.
C19_Witness ==
    /\ ~IsNull(activeTour)
    /\ ~IsNull(expectedId(WalkState))
    /\ expectedId(WalkState)[1] \in skippedIds
    /\ expectedId(WalkState)[1] \in sessionSkippedIds
    /\ IsNull(pendingLandmark)

\* --------------------------------------------- claims, tour sequencing

\* C20: with a tour active, getNextTourLandmark returns none and changes
\* nothing when currentIndex >= the tour length; otherwise, when
\* currentIndex >= previewLimit, it sets previewLimitReached and returns
\* none; otherwise it changes nothing and returns the candidate of the list
\* whose id is orderedIds[currentIndex], visited or skipped or not (none when
\* the list has no such candidate). It never changes currentIndex.
C20_GetNextTourLandmark ==
    ~IsNull(activeTour) =>
        \A list \in SubLists(landmarks) :
            LET ids == activeTour[1].landmarkIds
                r == getNextTourLandmarkRet(WalkState, list)
                after == getNextTourLandmark(WalkState, list)
            IN  /\ after.tourIndex = tourIndex
                /\ IF tourIndex >= Len(ids)
                   THEN IsNull(r) /\ after = WalkState
                   ELSE IF tourIndex >= tourPreviewLimit
                   THEN /\ IsNull(r)
                        /\ after = [WalkState EXCEPT !.tourPreviewLimitReached = TRUE]
                   ELSE /\ after = WalkState
                        /\ IF ids[tourIndex + 1] \in ListIds(list)
                           THEN /\ ~IsNull(r)
                                /\ r[1].id = ids[tourIndex + 1]
                                /\ \E i \in DOMAIN list : list[i] = r[1]
                           ELSE IsNull(r)

\* The expected stop is within the preview limit and already visited or
\* skipped in this walk, and it is returned all the same.
C20_Witness ==
    /\ ~IsNull(activeTour)
    /\ tourIndex < tourPreviewLimit
    /\ ~IsNull(expectedId(WalkState))
    /\ expectedId(WalkState)[1] \in visitedIds \cup skippedIds
    /\ ~IsNull(getNextTourLandmarkRet(WalkState, landmarks))

\* ------------------------------------------------ claims, tour lifetime

\* C21 as claimed: a walk that startWalkMode starts from a stopped walk is a
\* free-roam walk: it has no active tour (so that exploring in it cannot
\* advance a tour index).
C21_Step == (AppStartWalkMode /\ ~isActive /\ isActive') => IsNull(activeTour')

C21_FreeRoamHasNoTour == [][C21_Step]_vars

\* C22: a startTourWalk that returns true leaves, whatever the state before
\* it, the tour active with currentIndex 0, previewLimitReached false and
\* previewLimit the tour's preview count in preview mode and its length
\* otherwise, visitedIds and skippedIds empty, pendingLandmark null,
\* isActive true and isPaused false.
C22_StartTourWalkReinitializes ==
    startTourWalkRet =>
        \A tour \in Tours, isPreviewMode \in BOOLEAN :
            LET after == startTourWalk(WalkState, tour, isPreviewMode)
            IN  /\ after.activeTour = Some(tour)
                /\ after.tourIndex = 0
                /\ ~after.tourPreviewLimitReached
                /\ after.tourPreviewLimit =
                       IF isPreviewMode THEN tour.previewLandmarkCount
                       ELSE Len(tour.landmarkIds)
                /\ after.visitedIds = {}
                /\ after.skippedIds = {}
                /\ IsNull(after.pendingLandmark)
                /\ after.isActive
                /\ ~after.isPaused

\* A tour walk in progress that a new startTourWalk has to reset: the index
\* has advanced, the preview limit is reached, a landmark is visited, one is
\* pending and the walk is paused.
C22_Witness ==
    /\ geolocation
    /\ tourIndex >= 1
    /\ tourPreviewLimitReached
    /\ visitedIds # {}
    /\ ~IsNull(pendingLandmark)
    /\ isPaused

\* C23 as claimed: a tour is active only while currentIndex is below the
\* length of its orderedLandmarkIds (reaching the length destroys the tour
\* state), and endTourMode leaves no tour active, index 0 and
\* previewLimitReached false.
C23_TourStateLifetime ==
    /\ ~IsNull(activeTour) => tourIndex < Len(activeTour[1].landmarkIds)
    /\ LET ended == endTourMode(WalkState)
       IN  /\ IsNull(ended.activeTour)
           /\ ended.tourIndex = 0
           /\ ~ended.tourPreviewLimitReached

\* C24: with no tour active upgradeTourAccess changes nothing; with one it
\* sets previewLimit to the tour length and clears previewLimitReached and
\* changes nothing else, so that getNextTourLandmark then leaves
\* previewLimitReached clear and returns the current stop of an incomplete
\* tour from a list that holds it; and as long as previewLimit is the tour
\* length getNextTourLandmark never sets previewLimitReached.
C24_UpgradeTourAccess ==
    LET upgraded == upgradeTourAccess(WalkState)
    IN  IF IsNull(activeTour)
        THEN upgraded = WalkState
        ELSE LET ids == activeTour[1].landmarkIds
             IN  /\ upgraded = [WalkState EXCEPT !.tourPreviewLimit = Len(ids),
                                                 !.tourPreviewLimitReached = FALSE]
                 /\ \A list \in SubLists(landmarks) :
                       /\ getNextTourLandmark(upgraded, list) = upgraded
                       /\ (tourIndex < Len(ids) /\ ids[tourIndex + 1] \in ListIds(list)) =>
                             /\ ~IsNull(getNextTourLandmarkRet(upgraded, list))
                             /\ getNextTourLandmarkRet(upgraded, list)[1].id = ids[tourIndex + 1]
                       /\ tourPreviewLimit = Len(ids) =>
                             getNextTourLandmark(WalkState, list) = WalkState

\* A preview tour stopped at its preview limit before its last stop.
C24_Witness ==
    /\ ~IsNull(activeTour)
    /\ tourPreviewLimitReached
    /\ tourIndex >= tourPreviewLimit
    /\ tourIndex < Len(activeTour[1].landmarkIds)
    /\ IsNull(getNextTourLandmarkRet(WalkState, landmarks))

\* --------------------------------------------- claims, session loading

\* C25: constructing the service over any stored value gives a session:
\* the stored visitedIds and skippedIds when the value parses and carries
\* today's date key, and empty sets when it carries another date, does not
\* parse or is absent; what markVisited and markSkipped wrote is what a
\* restart on the same day loads.
C25_LoadSession ==
    /\ LET loaded == constructSession(SessionState)
       IN  IF ~IsNull(storage) /\ storage[1].parses /\ storage[1].date = getTodayKey
           THEN /\ loaded.visitedIds = storage[1].visitedIds
                /\ loaded.skippedIds = storage[1].skippedIds
           ELSE /\ loaded.visitedIds = {}
                /\ loaded.skippedIds = {}
    /\ \A id \in LandmarkIds :
          /\ LET marked == sessionMarkVisited(SessionState, id)
             IN  /\ constructSession(marked).visitedIds = marked.visitedIds
                 /\ constructSession(marked).skippedIds = marked.skippedIds
          /\ LET marked == sessionMarkSkipped(SessionState, id)
             IN  /\ constructSession(marked).visitedIds = marked.visitedIds
                 /\ constructSession(marked).skippedIds = marked.skippedIds

\* A stored session of today with a visited and a skipped landmark.
C25_Witness ==
    /\ ~IsNull(storage)
    /\ storage[1].parses
    /\ storage[1].date = getTodayKey
    /\ storage[1].visitedIds # {}
    /\ storage[1].skippedIds # {}

\* C26 as claimed: when the stored session carries an earlier date than
\* today (so every id in the sets was marked on an earlier date), shouldShow
\* hides no landmark, and a markVisited or markSkipped persists under
\* today's key nothing but the id it marks.
C26_ClearedOnDateChange ==
    (~IsNull(storage) /\ storage[1].parses /\ storage[1].date < getTodayKey) =>
        \A id \in LandmarkIds :
            /\ shouldShow(SessionState, id)
            /\ sessionMarkVisited(SessionState, id).storage[1].visitedIds \subseteq {id}
            /\ sessionMarkVisited(SessionState, id).storage[1].skippedIds = {}
            /\ sessionMarkSkipped(SessionState, id).storage[1].skippedIds \subseteq {id}
            /\ sessionMarkSkipped(SessionState, id).storage[1].visitedIds = {}

\* ------------------------------------------ claims, tours without location

\* C27 as claimed: on a device without location capability startTourWalk
\* returns false and leaves the state, the active tour, the tour index, the
\* preview limit and previewLimitReached included, as it was.
C27_StartTourWalkUnavailable ==
    ~geolocation =>
        /\ startTourWalkRet = FALSE
        /\ \A tour \in Tours, isPreviewMode \in BOOLEAN :
              startTourWalk(WalkState, tour, isPreviewMode) = WalkState

\* C28 as claimed: while a tour is limited to its preview (previewLimit is
\* below the tour length, which upgradeTourAccess ends), the tour index
\* exceeds neither previewLimit nor the tour length.
C28_PreviewLimitBoundsIndex ==
    (~IsNull(activeTour) /\ tourPreviewLimit < Len(activeTour[1].landmarkIds)) =>
        /\ tourIndex <= tourPreviewLimit
        /\ tourIndex <= Len(activeTour[1].landmarkIds)

\* ------------------------------------------------ claims, proximity tick

\* The walk is active and unpaused, nothing is pending, and the top-ranked
\* landmark that neither the walk nor the session has visited or skipped is
\* within PROXIMITY_THRESHOLD (and not at distance 0).
C29_LandmarkInRange ==
    /\ isActive
    /\ ~isPaused
    /\ IsNull(pendingLandmark)
    /\ LET top == getNextLandmark(WalkState, walkLandmarks)
       IN  /\ ~IsNull(top)
           /\ top[1].distance > 0
           /\ top[1].distance <= PROXIMITY_THRESHOLD

\* C29 as claimed: whenever a walk is active and unpaused with such a
\* landmark in range and nothing pending, eventually a landmark is pending
\* or that situation has ended.
C29_PendingEventuallySet ==
    C29_LandmarkInRange ~> (~C29_LandmarkInRange \/ ~IsNull(pendingLandmark))

\* The ids explored or skipped through the prompt: onExplorePending and
\* onSkipPending put them into the session's sets.
promptedIds == sessionVisitedIds \cup sessionSkippedIds

C30_Step ==
    /\ promptedIds \subseteq promptedIds'
    /\ (~IsNull(pendingLandmark') /\ pendingLandmark' # pendingLandmark) =>
           pendingLandmark'[1].id \notin promptedIds

\* C30: the landmarks explored or skipped through the prompt stay in the
\* session's sets across every step, stopWalkMode and startWalkMode
\* included, and no step makes one of them the pending landmark.
C30_NeverPendingAgain == [][C30_Step]_vars

\* A restarted walk that has forgotten L1, which was explored before and is
\* 10 m away: without the session's filter the tick would prompt for it.
C30_Witness ==
    /\ "L1" \in sessionVisitedIds
    /\ "L1" \notin visitedIds \cup skippedIds
    /\ isActive
    /\ ~isPaused
    /\ IsNull(pendingLandmark)
    /\ liveIntervals # {}
    /\ currentLocation = Some(0)
    /\ ~IsNull(checkProximityRet(WalkState, walkLandmarksUnfiltered))
    /\ checkProximityRet(WalkState, walkLandmarksUnfiltered)[1].id = "L1"

====
